---- MODULE Spec2Model ----
(***************************************************************************)
(* Stock ledger, purchase arrival and inventory-sync job queue of          *)
(* orange-fanta-back.                                                      *)
(*                                                                         *)
(* Numbers that arrive in a request body are kept in HALVES (h stands for  *)
(* the number h/2), so that Math.floor, Math.abs and the integer column    *)
(* type of the Record table act on values that are not already integers.   *)
(* Stored counts, prices and ids are whole numbers.                        *)
(*                                                                         *)
(* A nullable column or field is a sequence of length 0 (null) or 1.       *)
(* The date and memo columns of a movement are not modelled: no guard of   *)
(* the handlers reads them.  All rows belong to one user, so the userId    *)
(* filter of every query is always satisfied.                              *)
(***************************************************************************)
EXTENDS Integers, Sequences, FiniteSets, TLC

VARIABLES
    records,    \* Record table: id -> [itemId, type, count, price, purchaseId]
    nextId,     \* next value of the Record id sequence
    res,        \* response of the last movement request
    ledgerIn,   \* argument handed to calcStockAndPending (pure-function check)
    ledgerOut,  \* its result, <<>> before the first call
    jobs,       \* InventorySyncJob table: id -> row
    listings,   \* ids of the ChannelListing rows that exist
    now,        \* the clock, in minutes
    runners,    \* the invocations of runInventorySyncJobs: locals and position
    enqueued,   \* history: per provider, the last enqueue and whether a runner
                \* has claimed the job since
    targetIn,   \* arguments handed to computeTargetQuantities (pure-function check)
    targetOut,  \* its result, <<>> before the call
    normIn,     \* body handed to normalizeRecordInput (pure-function check)
    normOut,    \* its result, <<>> before the call
    reqs,       \* create requests in flight: position and locals of each
    hist        \* history: per provider, the adapter calls and failure writes
                \* since the last enqueue and the quantity last delivered

recVars == <<records, nextId, res, reqs>>
ledgerVars == <<ledgerIn, ledgerOut>>
syncVars == <<jobs, listings, now, runners, enqueued, hist>>
fnVars == <<targetIn, targetOut, normIn, normOut>>
vars == <<records, nextId, res, ledgerIn, ledgerOut, jobs, listings, now, runners, enqueued,
          targetIn, targetOut, normIn, normOut, reqs, hist>>

-----------------------------------------------------------------------------
(* Bounds *)

MaxRecords == 3     \* Record rows ever created
MaxCount == 2       \* largest whole count a request body carries
MaxLen == 3         \* longest movement list handed to calcStockAndPending
MaxTime == 51       \* the clock stops here

-----------------------------------------------------------------------------
(* Values *)

None == <<>>
Some(v) == <<v>>
IsNone(o) == Len(o) = 0
Val(o) == o[1]

Max(a, b) == IF a >= b THEN a ELSE b
Min(a, b) == IF a <= b THEN a ELSE b
Abs(a) == IF a < 0 THEN -a ELSE a

\* Raw JSON values of a request body.
RUndef == [k |-> "undefined"]
RNull == [k |-> "null"]
REmpty == [k |-> "empty"]       \* the string ""
RNaN == [k |-> "nan"]           \* a string that Number() turns into NaN
Num(h) == [k |-> "num", h |-> h]    \* the number h/2
Str(s) == [k |-> "str", s |-> s]

RecordTypes == {"IN", "OUT", "PURCHASE"}
Items == {1}

-----------------------------------------------------------------------------
(* src/api/utils/records.js *)

\* String(t ?? "").trim().toUpperCase() on the type strings a request carries.
TrimUpper(t) ==
    CASE t \in {"IN", "in", " In "} -> "IN"
      [] t \in {"OUT", "out"} -> "OUT"
      [] t \in {"PURCHASE", "Purchase"} -> "PURCHASE"
      [] t = "sale" -> "SALE"
      [] OTHER -> ""

normRecordType(t) ==
    LET v == TrimUpper(IF t.k \in {"null", "undefined"} THEN "" ELSE t.s)
    IN  IF v = "IN" \/ v = "OUT" \/ v = "PURCHASE" THEN Some(v) ELSE None

\* Number(raw) for a raw value that is not null/undefined: <<>> is NaN.
ToNumber(raw) ==
    CASE raw.k = "num" -> Some(raw.h)
      [] raw.k = "empty" -> Some(0)
      [] raw.k = "null" -> Some(0)
      [] OTHER -> None

Fail(msg) == [ok |-> FALSE, error |-> msg]

inPriceKept(price) == IF IsNone(price) THEN None ELSE Some(Val(price) \div 2)

\* IN: return {type, count, price: null}, whatever price was supplied.
inPrice(price) == None

purchasePriceMissingNoSign(priceNull, price) == priceNull \/ IsNone(price)

\* PURCHASE: !Number.isFinite(price) || price <= 0  (null is not finite)
purchasePriceMissing(priceNull, price) ==
    priceNull \/ IsNone(price) \/ Val(price) <= 0

\* count is in halves, price is a whole number or null.
normalizeRecordInput(body) ==
    LET type == normRecordType(body.type)
        countRaw == IF body.count.k \in {"null", "undefined"} THEN Num(2) ELSE body.count
        countNum == ToNumber(countRaw)
        count == Max(2, Abs(IF IsNone(countNum) THEN 2 ELSE Val(countNum)))
        rawPrice == body.price
        priceNull == rawPrice.k \in {"empty", "null", "undefined"}
        price == IF priceNull THEN None ELSE ToNumber(rawPrice)  \* None here: NaN
    IN  IF IsNone(type) THEN Fail("Invalid record type (IN/OUT/PURCHASE)")
        ELSE IF Val(type) = "IN"
            THEN [ok |-> TRUE, type |-> "IN", count |-> count, price |-> inPrice(price)]
        ELSE IF Val(type) = "PURCHASE"
            THEN IF purchasePriceMissing(priceNull, price)
                 THEN Fail("PURCHASE requires price (>0)")
                 ELSE [ok |-> TRUE, type |-> "PURCHASE", count |-> count,
                       price |-> Some(Val(price) \div 2)]
        ELSE IF priceNull
            THEN [ok |-> TRUE, type |-> "OUT", count |-> count, price |-> None]
        ELSE IF IsNone(price) \/ Val(price) < 0 THEN Fail("Invalid price")
        ELSE [ok |-> TRUE, type |-> "OUT", count |-> count,
              price |-> Some(Val(price) \div 2)]

\* The for-loop of calcStockAndPending over rs[i..Len(rs)], carried in acc.
RECURSIVE calcLoop(_, _, _)
calcLoop(rs, i, acc) ==
    IF i > Len(rs) THEN acc
    ELSE LET c == rs[i].count
             t == rs[i].type
         IN  calcLoop(rs, i + 1,
                 IF t = "IN"
                     THEN [acc EXCEPT !.stock = @ + c, !.inSum = @ + c]
                 ELSE IF t = "OUT"
                     THEN [acc EXCEPT !.stock = @ - c]
                 ELSE IF t = "PURCHASE"
                     THEN [acc EXCEPT !.purchaseSum = @ + c]
                 ELSE acc)

calcStockAndPendingBad(rs) ==
    LET a == calcLoop(rs, 1, [stock |-> 0, inSum |-> 0, purchaseSum |-> 0])
    IN  [stock |-> a.stock, pendingIn |-> a.purchaseSum - a.inSum]

calcStockAndPending(rs) ==
    LET a == calcLoop(rs, 1, [stock |-> 0, inSum |-> 0, purchaseSum |-> 0])
    IN  [stock |-> a.stock, pendingIn |-> Max(0, a.purchaseSum - a.inSum)]

\* _sum.count of a set of rows of the Record table.
RECURSIVE SumCount(_, _)
SumCount(recs, ids) ==
    IF ids = {} THEN 0
    ELSE LET i == CHOOSE x \in ids : TRUE
         IN  recs[i].count + SumCount(recs, ids \ {i})

IdsOfType(recs, itemId, type) ==
    {i \in DOMAIN recs : recs[i].itemId = itemId /\ recs[i].type = type}

\* groupBy type, then inSum - outSum (a missing group counts 0).
calcStockNoOut(recs, itemId) ==
    SumCount(recs, IdsOfType(recs, itemId, "IN"))

calcStock(recs, itemId) ==
    LET inSum == SumCount(recs, IdsOfType(recs, itemId, "IN"))
        outSum == SumCount(recs, IdsOfType(recs, itemId, "OUT"))
    IN  inSum - outSum

\* findMany({where: {itemId}, orderBy: id asc}) as a list of rows.
RECURSIVE Detail(_, _)
Detail(recs, ids) ==
    IF ids = {} THEN <<>>
    ELSE LET i == CHOOSE x \in ids : \A y \in ids : x <= y
         IN  <<recs[i]>> \o Detail(recs, ids \ {i})

ItemDetail(recs, itemId) ==
    Detail(recs, {i \in DOMAIN recs : recs[i].itemId = itemId})

-----------------------------------------------------------------------------
(* Request inputs *)

ReqItemIds == {0} \cup Items \cup {2}    \* 0: not a valid id, 2: no such item
ReqRecordIds == 0..MaxRecords
RawTypes == {RUndef, Str("IN"), Str("out"), Str("Purchase"), Str("sale")}
\* 3 halves is the count 1.5; 3 halves is the price 1.5, stored as 1.
RawCounts == {RUndef, Num(3)} \cup {Num(2 * c) : c \in 1..MaxCount}
RawPrices == {RUndef, RNull, Num(-2), Num(3)}
ArriveCounts == {RUndef, REmpty} \cup {Num(h) : h \in (-2)..(2 * MaxCount + 2)}

RecordBodies == [type : RawTypes, count : RawCounts, price : RawPrices]

Response(op, status, kind) ==
    [op |-> op, status |-> status, kind |-> kind, id |-> None, stock |-> None,
     pendingIn |-> None, remaining |-> None]

\* No request is being served: the last response has left.
NoResponse == Response("none", 0, "none")

\* res.json({ok: true, ..., stock, pendingIn}) after the detail query.
WithLedger(r, recs, itemId) ==
    LET l == calcStockAndPending(ItemDetail(recs, itemId))
    IN  [r EXCEPT !.stock = Some(l.stock), !.pendingIn = Some(l.pendingIn)]

RejectAfterWrite(r) ==
    /\ res' = r
    /\ records' = [i \in DOMAIN records \cup {nextId} |->
                     IF i = nextId
                     THEN [itemId |-> 1, type |-> "IN", count |-> 1, price |-> None,
                           purchaseId |-> None]
                     ELSE records[i]]
    /\ nextId' = nextId + 1

Reject(r) == /\ res' = r
             /\ UNCHANGED <<records, nextId>>

\* The Record.count column is INTEGER: the client refuses any other number.
IsInt(h) == h % 2 = 0

-----------------------------------------------------------------------------
(* POST /api/items/:itemId/records *)

\* The bodies a request can carry, after normalizeRecordInput(req.body).
NormalizedBodies == {normalizeRecordInput(b) : b \in RecordBodies}

InsufficientCreateOff(count, stockNow) == FALSE

\* normalized.count > stockNow (count in halves)
InsufficientCreate(count, stockNow) == count > 2 * stockNow

\* n is normalizeRecordInput(req.body), or the error it threw.
CreateRecord(itemId, n) ==
    LET stockNow == calcStock(records, itemId)
    IN  IF itemId <= 0 THEN Reject(Response("create", 400, "invalid itemId"))
        ELSE IF itemId \notin Items THEN Reject(Response("create", 404, "item not found"))
        ELSE IF ~n.ok THEN Reject(Response("create", 400, n.error))
        ELSE IF n.type = "OUT" /\ InsufficientCreate(n.count, stockNow)
            THEN Reject([Response("create", 400, "insufficient stock")
                            EXCEPT !.stock = Some(stockNow)])
        ELSE IF ~IsInt(n.count) THEN Reject(Response("create", 500, "invalid count"))
        ELSE /\ nextId <= MaxRecords
             /\ records' = [i \in DOMAIN records \cup {nextId} |->
                             IF i = nextId
                             THEN [itemId |-> itemId, type |-> n.type,
                                   count |-> n.count \div 2, price |-> n.price,
                                   purchaseId |-> None]
                             ELSE records[i]]
             /\ nextId' = nextId + 1
             /\ res' = WithLedger([Response("create", 201, "ok") EXCEPT !.id = Some(nextId)],
                                  records', itemId)

-----------------------------------------------------------------------------
(* POST /api/items/:itemId/records, two requests in flight: one step per
   awaited query *)

Slots == {1, 2}

IdleReq == [pc |-> "idle", itemId |-> 0, n |-> None, stockNow |-> None,
            status |-> 0, kind |-> "none", id |-> None, stock |-> None,
            purchaseId |-> 0, purchase |-> None, reqCountRaw |-> RUndef,
            remaining |-> None]

\* return res.status(status).json({ok: false, message})
Refused(req, status, kind) == [req EXCEPT !.pc = "done", !.status = status, !.kind = kind]

\* The request arrives: itemId, the item lookup and normalizeRecordInput.
BeginCreate(s, itemId, n) ==
    LET req == [IdleReq EXCEPT !.itemId = itemId]
    IN  /\ reqs[s].pc = "idle"
        /\ reqs' = [reqs EXCEPT ![s] =
              IF itemId <= 0 THEN Refused(req, 400, "invalid itemId")
              ELSE IF itemId \notin Items THEN Refused(req, 404, "item not found")
              ELSE IF ~n.ok THEN Refused(req, 400, n.error)
              ELSE [req EXCEPT !.n = Some(n),
                               !.pc = IF n.type = "OUT" THEN "check" ELSE "write"]]
        /\ UNCHANGED <<records, nextId, res>>

\* const stockNow = await calcStock(prisma, req.userId, itemId)
CheckStock(s) ==
    LET req == reqs[s]
        stockNow == calcStock(records, req.itemId)
    IN  /\ req.pc = "check"
        /\ reqs' = [reqs EXCEPT ![s] =
              IF InsufficientCreate(Val(req.n).count, stockNow)
              THEN [Refused(req, 400, "insufficient stock") EXCEPT !.stock = Some(stockNow)]
              ELSE [req EXCEPT !.pc = "write", !.stockNow = Some(stockNow)]]
        /\ UNCHANGED <<records, nextId, res>>

\* const created = await prisma.record.create({data})
WriteRecord(s) ==
    LET req == reqs[s]
        n == Val(req.n)
    IN  /\ req.pc = "write"
        /\ IF ~IsInt(n.count)
           THEN /\ reqs' = [reqs EXCEPT ![s] = Refused(req, 500, "invalid count")]
                /\ UNCHANGED <<records, nextId, res>>
           ELSE /\ nextId <= MaxRecords
                /\ records' = [i \in DOMAIN records \cup {nextId} |->
                                IF i = nextId
                                THEN [itemId |-> req.itemId, type |-> n.type,
                                      count |-> n.count \div 2, price |-> n.price,
                                      purchaseId |-> None]
                                ELSE records[i]]
                /\ nextId' = nextId + 1
                /\ reqs' = [reqs EXCEPT ![s].pc = "detail", ![s].id = Some(nextId)]
                /\ res' = res

\* The detail query and res.status(201).json({ok: true, record, stock, ...}).
ReadDetail(s) ==
    LET req == reqs[s]
    IN  /\ req.pc = "detail"
        /\ reqs' = [reqs EXCEPT ![s].pc = "done", ![s].status = 201, ![s].kind = "ok",
                                ![s].stock =
                                   Some(calcStockAndPending(
                                           ItemDetail(records, req.itemId)).stock)]
        /\ UNCHANGED <<records, nextId, res>>

\* The response has left.
EndCreate(s) ==
    /\ reqs[s].pc = "done"
    /\ reqs' = [reqs EXCEPT ![s] = IdleReq]
    /\ UNCHANGED <<records, nextId, res>>

-----------------------------------------------------------------------------
(* PUT /api/items/:itemId/records *)

mergedBody(existing, body) ==
    [type |-> IF body.type.k \notin {"null", "undefined"}
              THEN body.type ELSE Str(existing.type),
     count |-> IF body.count.k \notin {"null", "undefined"}
               THEN body.count ELSE Num(2 * existing.count),
     price |-> IF body.price.k # "undefined" THEN body.price
               ELSE IF IsNone(existing.price) THEN RNull
               ELSE Num(2 * Val(existing.price))]

\* The merged bodies an update of `existing` can carry, after normalization.
NormalizedMerged(existing) ==
    {normalizeRecordInput(mergedBody(existing, b)) : b \in RecordBodies}

stockExcludingThis(existing, stockNow) ==
    IF existing.type = "OUT" THEN stockNow + existing.count ELSE stockNow

UpdateFound(itemId, id) ==
    /\ itemId > 0
    /\ id > 0
    /\ id \in DOMAIN records
    /\ records[id].itemId = itemId

\* n is normalizeRecordInput(mergedBody), read only when the record was found.
UpdateRecord(itemId, id, n) ==
    IF itemId <= 0 THEN Reject(Response("update", 400, "invalid itemId"))
    ELSE IF id <= 0 THEN Reject(Response("update", 400, "invalid record id"))
    ELSE IF ~UpdateFound(itemId, id)
        THEN Reject(Response("update", 404, "record not found"))
    ELSE
    LET existing == records[id]
        stockNow == calcStock(records, itemId)
        excl == stockExcludingThis(existing, stockNow)
    IN  IF ~n.ok THEN Reject(Response("update", 400, n.error))
        ELSE IF n.type = "OUT" /\ n.count > 2 * excl
            THEN Reject([Response("update", 400, "insufficient stock")
                            EXCEPT !.stock = Some(excl)])
        ELSE IF ~IsInt(n.count) THEN Reject(Response("update", 500, "invalid count"))
        ELSE /\ records' = [records EXCEPT ![id] =
                             [itemId |-> existing.itemId, type |-> n.type,
                              count |-> n.count \div 2, price |-> n.price,
                              purchaseId |-> existing.purchaseId]]
             /\ nextId' = nextId
             /\ res' = WithLedger([Response("update", 200, "ok") EXCEPT !.id = Some(id)],
                                  records', itemId)

-----
(* DELETE /api/items/:itemId/records *)

\* Record_purchaseId_fkey is ON DELETE SET NULL.
DeleteRecord(itemId, id) ==
    IF itemId <= 0 THEN Reject(Response("delete", 400, "invalid itemId"))
    ELSE IF id <= 0 THEN Reject(Response("delete", 400, "invalid record id"))
    ELSE IF ~(id \in DOMAIN records /\ records[id].itemId = itemId)
        THEN Reject(Response("delete", 404, "record not found"))
    ELSE /\ records' = [i \in DOMAIN records \ {id} |->
                         IF records[i].purchaseId = Some(id)
                         THEN [records[i] EXCEPT !.purchaseId = None]
                         ELSE records[i]]
         /\ nextId' = nextId
         /\ res' = WithLedger([Response("delete", 200, "ok") EXCEPT !.id = Some(id)],
                              records', itemId)

-----------------------------------------------------------------------------
(* POST /api/purchases/:purchaseId/arrive   (src/api/routes/records.js) *)

\* aggregate _sum.count over {itemId, type: "IN", purchaseId}; null sum is 0.
arrivedSum(recs, itemId, purchaseId) ==
    SumCount(recs, {i \in DOMAIN recs : /\ recs[i].itemId = itemId
                                        /\ recs[i].type = "IN"
                                        /\ recs[i].purchaseId = Some(purchaseId)})

remainingOfIgnoringArrivals(recs, purchase, purchaseId) == purchase.count

remainingOf(recs, purchase, purchaseId) ==
    Max(0, purchase.count - arrivedSum(recs, purchase.itemId, purchaseId))

arriveCountNoClamp(reqCountRaw, remaining) ==
    IF reqCountRaw.k \in {"empty", "null", "undefined"} THEN remaining
    ELSE Max(1, Val(ToNumber(reqCountRaw)) \div 2)

arriveCountNoFloor(reqCountRaw, remaining) ==
    IF reqCountRaw.k \in {"empty", "null", "undefined"} THEN remaining
    ELSE Min(remaining, Val(ToNumber(reqCountRaw)) \div 2)

\* reqCountNum == null ? remaining : max(1, min(remaining, floor(reqCountNum)))
arriveCount(reqCountRaw, remaining) ==
    IF reqCountRaw.k \in {"empty", "null", "undefined"} THEN remaining
    ELSE Max(1, Min(remaining, Val(ToNumber(reqCountRaw)) \div 2))

\* The request reaches the count resolution: the purchase exists and is owed.
ArriveOwed(purchaseId) ==
    /\ purchaseId \in DOMAIN records
    /\ records[purchaseId].type = "PURCHASE"
    /\ remainingOf(records, records[purchaseId], purchaseId) > 0

Arrive(purchaseId, reqCountRaw) ==
    IF purchaseId <= 0 THEN Reject(Response("arrive", 400, "invalid purchaseId"))
    ELSE IF purchaseId \notin DOMAIN records
        THEN Reject(Response("arrive", 404, "purchase not found"))
    ELSE IF records[purchaseId].type # "PURCHASE"
        THEN Reject(Response("arrive", 400, "record is not PURCHASE"))
    ELSE
    LET purchase == records[purchaseId]
        remaining == remainingOf(records, purchase, purchaseId)
        count == arriveCount(reqCountRaw, remaining)
    IN  IF remaining <= 0
            THEN Reject([Response("arrive", 200, "already fully arrived")
                            EXCEPT !.remaining = Some(0)])
        ELSE /\ nextId <= MaxRecords
             /\ records' = [i \in DOMAIN records \cup {nextId} |->
                             IF i = nextId
                             THEN [itemId |-> purchase.itemId, type |-> "IN",
                                   count |-> count, price |-> None,
                                   purchaseId |-> Some(purchaseId)]
                             ELSE records[i]]
             /\ nextId' = nextId + 1
             /\ res' = WithLedger(
                         [Response("arrive", 201, "ok") EXCEPT
                            !.id = Some(nextId),
                            !.remaining = Some(remainingOf(records', purchase, purchaseId))],
                         records', purchase.itemId)

-----------------------------------------------------------------------------
(* Inventory sync job queue   (services/inventorySync.js)                  *)
(*                                                                         *)
(* Every await of runInventorySyncJobs is a step of its own: the select,   *)
(* the conditional claim, the adapter call and the outcome write, so that  *)
(* an enqueue or another runner can act between any two of them.  A runner *)
(* keeps the job objects it selected; it never re-reads a row.  The        *)
(* channel adapter is outside the program: its call returns ok or not ok.  *)

Providers == {"NAVER", "COUPANG"}
Runners == {1, 2}
TargetQtys == {3, 7}
DefaultLimit == 20

\* The ChannelListing row of each provider for the one (user, item).
ListingOf(p) == IF p = "NAVER" THEN 1 ELSE 2

IdleRunner == [pc |-> "idle", jobs |-> <<>>, result |-> None,
               processed |-> 0, succeeded |-> 0, failed |-> 0]

SyncIdle == /\ jobs = <<>>
            /\ listings = {ListingOf(p) : p \in Providers}
            /\ now = 0
            /\ runners = [r \in Runners |-> IdleRunner]
            /\ enqueued = [p \in Providers |-> None]
            /\ hist = [p \in Providers |->
                         [dispatches |-> 0, failures |-> 0, delivered |-> None]]

JobOf(js, provider) == {j \in DOMAIN js : js[j].userId = 1 /\ js[j].provider = provider
                                          /\ js[j].itemId = 1}

\* prisma.inventorySyncJob.upsert on the unique key (userId, provider, itemId).
upsert(js, target, at) ==
    IF JobOf(js, target.provider) = {}
    THEN [j \in DOMAIN js \cup {Len(js) + 1} |->
            IF j \in DOMAIN js THEN js[j]
            ELSE [userId |-> 1, provider |-> target.provider, itemId |-> 1,
                  listingId |-> Some(target.listingId), targetQty |-> target.targetQty,
                  status |-> "PENDING", attempts |-> 0, lastError |-> None,
                  nextRunAt |-> at, lockedAt |-> None]]
    ELSE [j \in DOMAIN js |->
            IF j \in JobOf(js, target.provider)
            THEN [js[j] EXCEPT !.listingId = Some(target.listingId),
                               !.targetQty = target.targetQty,
                               !.status = "PENDING", !.attempts = 0,
                               !.lastError = None, !.nextRunAt = at,
                               !.lockedAt = None]
            ELSE js[j]]

\* for (const target of targets) upsert(...), with one `now` for the call.
RECURSIVE upsertAll(_, _, _, _)
upsertAll(js, targets, i, at) ==
    IF i > Len(targets) THEN js
    ELSE upsertAll(upsert(js, targets[i], at), targets, i + 1, at)

enqueueInventorySync(targets) ==
    /\ jobs' = upsertAll(jobs, targets, 1, now)
    /\ UNCHANGED <<listings, now, runners>>

\* The target lists computeTargetQuantities can hand over: one target per
\* active listing, in listing id order.
TargetLists ==
    LET one(p) == {[provider |-> p, listingId |-> ListingOf(p), targetQty |-> q] :
                      q \in TargetQtys}
        naver == IF ListingOf("NAVER") \in listings THEN one("NAVER") ELSE {}
        coupang == IF ListingOf("COUPANG") \in listings THEN one("COUPANG") ELSE {}
    IN  {<<a>> : a \in naver} \cup {<<b>> : b \in coupang}
          \cup {<<a, b>> : a \in naver, b \in coupang}

computeBackoffMinutes(attempts) ==
    IF attempts <= 1 THEN 1
    ELSE IF attempts = 2 THEN 5
    ELSE IF attempts = 3 THEN 15
    ELSE IF attempts = 4 THEN 30
    ELSE 60

DueWhateverStatus(js, at) == {j \in DOMAIN js : js[j].nextRunAt <= at}

\* where: {status: "PENDING", nextRunAt <= now, lockedAt: null}
Due(js, at) == {j \in DOMAIN js : /\ js[j].userId = 1
                                  /\ js[j].status = "PENDING"
                                  /\ js[j].nextRunAt <= at
                                  /\ js[j].lockedAt = None}

\* orderBy nextRunAt asc, id asc; take limit; include listing.
RECURSIVE findMany(_, _, _)
findMany(js, ids, limit) ==
    IF ids = {} \/ limit <= 0 THEN <<>>
    ELSE LET j == CHOOSE x \in ids : \A y \in ids :
                     \/ js[x].nextRunAt < js[y].nextRunAt
                     \/ js[x].nextRunAt = js[y].nextRunAt /\ x <= y
         IN  <<[id |-> j, provider |-> js[j].provider, targetQty |-> js[j].targetQty,
                attempts |-> js[j].attempts,
                listing |-> IF js[j].listingId # None /\ Val(js[j].listingId) \in listings
                            THEN js[j].listingId ELSE None]>>
               \o findMany(js, ids \ {j}, limit - 1)

\* The loop moves to its next job, or returns {processed, succeeded, failed}.
\* run.jobs holds the jobs the loop has still to visit; its head is the current one.
NextJob(run) ==
    IF Len(run.jobs) <= 1
    THEN [run EXCEPT !.pc = "idle", !.jobs = <<>>, !.result = None]
    ELSE [run EXCEPT !.pc = "claim", !.jobs = Tail(@), !.result = None]

RunnerStart(r, limit) ==
    LET found == findMany(jobs, Due(jobs, now), limit)
    IN  /\ runners[r].pc = "idle"
        /\ runners' = [runners EXCEPT ![r] =
                         IF found = <<>> THEN IdleRunner
                         ELSE [IdleRunner EXCEPT !.pc = "claim", !.jobs = found]]
        /\ UNCHANGED <<jobs, listings, now>>

ClaimableAlways(row) == TRUE

\* updateMany where {id, status: "PENDING", lockedAt: null}
Claimable(row) == row.status = "PENDING" /\ row.lockedAt = None

RunnerClaim(r) ==
    LET run == runners[r]
        job == Head(run.jobs)
    IN  /\ run.pc = "claim"
        /\ IF Claimable(jobs[job.id])
           THEN /\ jobs' = [jobs EXCEPT ![job.id].status = "RUNNING",
                                        ![job.id].lockedAt = Some(now)]
                /\ runners' = [runners EXCEPT ![r] =
                      IF job.listing = None
                      THEN [run EXCEPT !.pc = "write", !.processed = @ + 1,
                                       !.result = Some("listing missing")]
                      ELSE [run EXCEPT !.pc = "dispatch", !.processed = @ + 1]]
           ELSE /\ jobs' = jobs
                /\ runners' = [runners EXCEPT ![r] = NextJob(run)]
        /\ UNCHANGED <<listings, now>>

\* client.updateStock({listing, targetQty}): {ok: true}, or a result that is not ok.
AdapterOutcomes == {"ok", "provider update failed"}

RunnerDispatch(r, outcome) ==
    /\ runners[r].pc = "dispatch"
    /\ runners' = [runners EXCEPT ![r].pc = "write", ![r].result = Some(outcome)]
    /\ UNCHANGED <<jobs, listings, now>>

successDataKeepingError(row) == [row EXCEPT !.status = "SUCCEEDED", !.lockedAt = None]

successDataKeepingLock(row) == [row EXCEPT !.status = "SUCCEEDED", !.lastError = None]

\* data: {status: "SUCCEEDED", lockedAt: null, lastError: null}
successData(row) ==
    [row EXCEPT !.status = "SUCCEEDED", !.lockedAt = None, !.lastError = None]

RunnerWriteSuccess(r) ==
    LET run == runners[r]
        job == Head(run.jobs)
    IN  /\ run.pc = "write"
        /\ run.result = Some("ok")
        /\ jobs' = [jobs EXCEPT ![job.id] = successData(@)]
        /\ runners' = [runners EXCEPT ![r] = NextJob([run EXCEPT !.succeeded = @ + 1])]
        /\ UNCHANGED <<listings, now>>

terminalAfterSix(attempts) == attempts >= 6

\* const terminal = attempts >= 5
terminal(attempts) == attempts >= 5

RunnerWriteFailure(r) ==
    LET run == runners[r]
        job == Head(run.jobs)
        attempts == job.attempts + 1
        delayMinutes == computeBackoffMinutes(attempts)
    IN  /\ run.pc = "write"
        /\ run.result # Some("ok")
        /\ jobs' = [jobs EXCEPT ![job.id].status = IF terminal(attempts) THEN "FAILED"
                                                   ELSE "PENDING",
                                ![job.id].attempts = attempts,
                                ![job.id].lastError = run.result,
                                ![job.id].nextRunAt = now + delayMinutes,
                                ![job.id].lockedAt = None]
        /\ runners' = [runners EXCEPT ![r] = NextJob([run EXCEPT !.failed = @ + 1])]
        /\ UNCHANGED <<listings, now>>

\* InventorySyncJob_listingId_fkey is ON DELETE SET NULL.
RemoveListing(l) ==
    /\ l \in listings
    /\ listings' = listings \ {l}
    /\ jobs' = [j \in DOMAIN jobs |->
                  IF jobs[j].listingId = Some(l)
                  THEN [jobs[j] EXCEPT !.listingId = None] ELSE jobs[j]]
    /\ UNCHANGED <<now, runners>>

\* The process of a runner invocation stops between its claim and its outcome
\* write: its locals are lost, the row stays as the claim left it.
RunnerCrash(r) ==
    /\ runners[r].pc \in {"dispatch", "write"}
    /\ runners' = [runners EXCEPT ![r] = IdleRunner]
    /\ UNCHANGED <<jobs, listings, now>>

\* Time passes until a waiting job falls due.
Tick == \E j \in DOMAIN jobs :
            /\ jobs[j].nextRunAt > now
            /\ jobs[j].nextRunAt <= MaxTime
            /\ now' = jobs[j].nextRunAt
            /\ UNCHANGED <<jobs, listings, runners>>

ProviderAt(l) == CHOOSE p \in Providers : ListingOf(p) = l

\* The ids of the stored listings, ascending.
RECURSIVE StoredIds(_)
StoredIds(ids) ==
    IF ids = {} THEN <<>>
    ELSE LET l == CHOOSE x \in ids : \A y \in ids : x <= y
         IN  <<l>> \o StoredIds(ids \ {l})

Target(p, q) == [provider |-> p, listingId |-> ListingOf(p), targetQty |-> q]

noteEnqueue(targets) ==
    [p \in Providers |->
        IF \E i \in DOMAIN targets : targets[i].provider = p
        THEN LET i == CHOOSE k \in DOMAIN targets : targets[k].provider = p
             IN  Some([targetQty |-> targets[i].targetQty, at |-> now, claimed |-> FALSE])
        ELSE enqueued[p]]

noteClaim(r) ==
    LET job == Head(runners[r].jobs)
    IN  IF Claimable(jobs[job.id])
        THEN [enqueued EXCEPT ![job.provider] = Some([Val(@) EXCEPT !.claimed = TRUE])]
        ELSE enqueued

Enqueue == \E targets \in TargetLists :
               /\ enqueueInventorySync(targets)
               /\ enqueued' = noteEnqueue(targets)
               /\ UNCHANGED <<recVars, ledgerVars, fnVars, hist>>
Start == \E r \in Runners, limit \in {1, DefaultLimit} :
               RunnerStart(r, limit) /\ UNCHANGED <<recVars, ledgerVars, fnVars, enqueued, hist>>
Claim == \E r \in Runners :
               /\ RunnerClaim(r)
               /\ enqueued' = noteClaim(r)
               /\ UNCHANGED <<recVars, ledgerVars, fnVars, hist>>
Dispatch == \E r \in Runners, outcome \in AdapterOutcomes :
               RunnerDispatch(r, outcome) /\ UNCHANGED <<recVars, ledgerVars, fnVars, enqueued, hist>>
WriteSuccess == \E r \in Runners :
               RunnerWriteSuccess(r) /\ UNCHANGED <<recVars, ledgerVars, fnVars, enqueued, hist>>
WriteFailure == \E r \in Runners :
               RunnerWriteFailure(r) /\ UNCHANGED <<recVars, ledgerVars, fnVars, enqueued, hist>>
ListingRemoved == \E l \in listings :
               RemoveListing(l) /\ UNCHANGED <<recVars, ledgerVars, fnVars, enqueued, hist>>
TimePasses == Tick /\ UNCHANGED <<recVars, ledgerVars, fnVars, enqueued, hist>>

\* One runner and one provider, for the retry schedule over time.
EnqueueOne == \E q \in TargetQtys :
               /\ ListingOf("NAVER") \in listings
               /\ enqueueInventorySync(<<Target("NAVER", q)>>)
               /\ enqueued' = noteEnqueue(<<Target("NAVER", q)>>)
               /\ UNCHANGED <<recVars, ledgerVars, fnVars, hist>>
StartOne == \E limit \in {1, DefaultLimit} :
               RunnerStart(1, limit) /\ UNCHANGED <<recVars, ledgerVars, fnVars, enqueued, hist>>

\* One sync-inventory call: a target for every stored listing, the same
\* quantity for each (mode NORMAL).
EnqueueAll == \E q \in TargetQtys :
               LET targets == [i \in DOMAIN StoredIds(listings) |->
                                 Target(ProviderAt(StoredIds(listings)[i]), q)]
               IN  /\ targets # <<>>
                   /\ enqueueInventorySync(targets)
                   /\ enqueued' = noteEnqueue(targets)
                   /\ UNCHANGED <<recVars, ledgerVars, fnVars, hist>>

\* The same steps with the history kept: an enqueue starts the counts of its
\* triple again, an adapter call is counted and, when it returns ok, its
\* quantity is the one delivered; a failure write is counted.
noteDispatch(r, outcome) ==
    LET job == Head(runners[r].jobs)
    IN  [hist EXCEPT ![job.provider].dispatches = @ + 1,
                     ![job.provider].delivered =
                        IF outcome = "ok" THEN Some(job.targetQty) ELSE @]

noteFailure(r) ==
    [hist EXCEPT ![Head(runners[r].jobs).provider].failures = @ + 1]

noteReset(targets) ==
    [p \in Providers |->
        IF \E i \in DOMAIN targets : targets[i].provider = p
        THEN [hist[p] EXCEPT !.dispatches = 0, !.failures = 0]
        ELSE hist[p]]

EnqueueNoted == \E q \in TargetQtys :
               /\ ListingOf("NAVER") \in listings
               /\ enqueueInventorySync(<<Target("NAVER", q)>>)
               /\ enqueued' = noteEnqueue(<<Target("NAVER", q)>>)
               /\ hist' = noteReset(<<Target("NAVER", q)>>)
               /\ UNCHANGED <<recVars, ledgerVars, fnVars>>
DispatchNoted == \E r \in Runners, outcome \in AdapterOutcomes :
               /\ RunnerDispatch(r, outcome)
               /\ hist' = noteDispatch(r, outcome)
               /\ UNCHANGED <<recVars, ledgerVars, fnVars, enqueued>>
FailureNoted == \E r \in Runners :
               /\ RunnerWriteFailure(r)
               /\ hist' = noteFailure(r)
               /\ UNCHANGED <<recVars, ledgerVars, fnVars, enqueued>>

\* Enqueue calls for one triple and two runner invocations, interleaved at
\* one instant, with the history kept.
HistNext == \/ EnqueueNoted \/ Start \/ Claim \/ DispatchNoted
            \/ WriteSuccess \/ FailureNoted

\* The first enqueue of the item, and none after it.
EnqueueFirst == \E targets \in TargetLists :
               /\ jobs = <<>>
               /\ enqueueInventorySync(targets)
               /\ enqueued' = noteEnqueue(targets)
               /\ hist' = noteReset(targets)
               /\ UNCHANGED <<recVars, ledgerVars, fnVars>>

\* Time passes until a waiting job falls due, with no end to the clock.
Elapse == /\ \E j \in DOMAIN jobs :
                /\ jobs[j].nextRunAt > now
                /\ now' = jobs[j].nextRunAt
          /\ UNCHANGED <<jobs, listings, runners>>
          /\ UNCHANGED <<recVars, ledgerVars, fnVars, enqueued, hist>>

\* One enqueue, then the runner invoked again and again while time passes.
DrainNext == \/ EnqueueFirst \/ StartOne \/ Claim \/ DispatchNoted
             \/ WriteSuccess \/ FailureNoted \/ ListingRemoved \/ Elapse

Crash == \E r \in Runners :
               RunnerCrash(r) /\ UNCHANGED <<recVars, ledgerVars, fnVars, enqueued, hist>>

\* One runner invoked again and again, which may stop after a claim, while
\* time passes.
CrashNext == \/ EnqueueAll \/ StartOne \/ Claim \/ Dispatch
             \/ WriteSuccess \/ WriteFailure \/ TimePasses \/ Crash

BatchNext == \/ EnqueueAll \/ Start \/ Claim \/ Dispatch
             \/ WriteSuccess \/ WriteFailure \/ ListingRemoved

SyncNext == \/ Enqueue \/ Start \/ Claim \/ Dispatch
            \/ WriteSuccess \/ WriteFailure

RetryNext == \/ EnqueueOne \/ StartOne \/ Claim \/ Dispatch
             \/ WriteSuccess \/ WriteFailure \/ ListingRemoved \/ TimePasses

-----------------------------------------------------------------------------
(* POST /api/purchases/:purchaseId/arrive, two requests in flight: one step
   per awaited query *)

\* The request arrives: purchaseId and the purchase lookup.
BeginArrive(s, purchaseId, reqCountRaw) ==
    LET req == [IdleReq EXCEPT !.purchaseId = purchaseId, !.reqCountRaw = reqCountRaw]
    IN  /\ reqs[s].pc = "idle"
        /\ reqs' = [reqs EXCEPT ![s] =
              IF purchaseId <= 0 THEN Refused(req, 400, "invalid purchaseId")
              ELSE IF purchaseId \notin DOMAIN records
                  THEN Refused(req, 404, "purchase not found")
              ELSE IF records[purchaseId].type # "PURCHASE"
                  THEN Refused(req, 400, "record is not PURCHASE")
              ELSE [req EXCEPT !.pc = "sum", !.purchase = Some(records[purchaseId]),
                               !.itemId = records[purchaseId].itemId]]
        /\ UNCHANGED <<records, nextId, res>>

\* const arrived = await prisma.record.aggregate(...); remaining
SumArrived(s) ==
    LET req == reqs[s]
        remaining == remainingOf(records, Val(req.purchase), req.purchaseId)
    IN  /\ req.pc = "sum"
        /\ reqs' = [reqs EXCEPT ![s] =
              IF remaining <= 0
              THEN [req EXCEPT !.pc = "done", !.status = 200,
                               !.kind = "already fully arrived", !.remaining = Some(0)]
              ELSE [req EXCEPT !.pc = "create", !.remaining = Some(remaining)]]
        /\ UNCHANGED <<records, nextId, res>>

\* const createdIn = await prisma.record.create({data: {type: "IN", count, purchaseId}})
CreateIn(s) ==
    LET req == reqs[s]
        count == arriveCount(req.reqCountRaw, Val(req.remaining))
    IN  /\ req.pc = "create"
        /\ nextId <= MaxRecords
        /\ records' = [i \in DOMAIN records \cup {nextId} |->
                        IF i = nextId
                        THEN [itemId |-> req.itemId, type |-> "IN", count |-> count,
                              price |-> None, purchaseId |-> Some(req.purchaseId)]
                        ELSE records[i]]
        /\ nextId' = nextId + 1
        /\ reqs' = [reqs EXCEPT ![s].pc = "detail", ![s].id = Some(nextId)]
        /\ res' = res

\* The detail query: stock of the response.
ArriveDetail(s) ==
    LET req == reqs[s]
    IN  /\ req.pc = "detail"
        /\ reqs' = [reqs EXCEPT ![s].pc = "sum2",
                                ![s].stock =
                                   Some(calcStockAndPending(
                                           ItemDetail(records, req.itemId)).stock)]
        /\ UNCHANGED <<records, nextId, res>>

\* The second aggregate, remaining2, and res.status(201).json(...).
SumArrivedAgain(s) ==
    LET req == reqs[s]
    IN  /\ req.pc = "sum2"
        /\ reqs' = [reqs EXCEPT ![s].pc = "done", ![s].status = 201, ![s].kind = "ok",
                                ![s].remaining =
                                   Some(remainingOf(records, Val(req.purchase),
                                                    req.purchaseId))]
        /\ UNCHANGED <<records, nextId, res>>

-----------------------------------------------------------------------------
(* Movement requests served one at a time *)

RecInit == /\ records = <<>>
           /\ nextId = 1
           /\ res = NoResponse
           /\ reqs = [s \in Slots |-> IdleReq]

LedgerIdle == /\ ledgerIn = <<>>
              /\ ledgerOut = None

FnIdle == /\ targetIn = None
          /\ targetOut = None
          /\ normIn = None
          /\ normOut = None

Create == \E itemId \in ReqItemIds :
              /\ res = NoResponse
              /\ \E n \in IF itemId \in Items THEN NormalizedBodies ELSE {Fail("")} :
                  CreateRecord(itemId, n) /\ UNCHANGED <<reqs, ledgerVars, fnVars, syncVars>>
Update == \E itemId \in ReqItemIds, id \in ReqRecordIds :
              /\ res = NoResponse
              /\ \E n \in IF UpdateFound(itemId, id) THEN NormalizedMerged(records[id])
                        ELSE {Fail("")} :
                  UpdateRecord(itemId, id, n) /\ UNCHANGED <<reqs, ledgerVars, fnVars, syncVars>>
Delete == \E itemId \in ReqItemIds, id \in ReqRecordIds :
              /\ res = NoResponse
              /\ DeleteRecord(itemId, id) /\ UNCHANGED <<reqs, ledgerVars, fnVars, syncVars>>
ArrivePurchase == \E purchaseId \in ReqRecordIds :
              /\ res = NoResponse
              /\ \E c \in IF ArriveOwed(purchaseId) THEN ArriveCounts ELSE {RUndef} :
                  Arrive(purchaseId, c) /\ UNCHANGED <<reqs, ledgerVars, fnVars, syncVars>>

\* The response leaves; the next request is served after it.
Respond == /\ res # NoResponse
           /\ res' = NoResponse
           /\ UNCHANGED <<records, nextId, reqs, ledgerVars, fnVars, syncVars>>

Begin == \E s \in Slots, itemId \in ReqItemIds, n \in NormalizedBodies :
             BeginCreate(s, itemId, n) /\ UNCHANGED <<ledgerVars, fnVars, syncVars>>
Check == \E s \in Slots : CheckStock(s) /\ UNCHANGED <<ledgerVars, fnVars, syncVars>>
Write == \E s \in Slots : WriteRecord(s) /\ UNCHANGED <<ledgerVars, fnVars, syncVars>>
ReadBack == \E s \in Slots : ReadDetail(s) /\ UNCHANGED <<ledgerVars, fnVars, syncVars>>
End == \E s \in Slots : EndCreate(s) /\ UNCHANGED <<ledgerVars, fnVars, syncVars>>

ArriveBegin == \E s \in Slots, purchaseId \in ReqRecordIds, c \in ArriveCounts :
             BeginArrive(s, purchaseId, c) /\ UNCHANGED <<ledgerVars, fnVars, syncVars>>
ArriveSum == \E s \in Slots : SumArrived(s) /\ UNCHANGED <<ledgerVars, fnVars, syncVars>>
ArriveCreate == \E s \in Slots : CreateIn(s) /\ UNCHANGED <<ledgerVars, fnVars, syncVars>>
ArriveReadBack == \E s \in Slots :
             ArriveDetail(s) /\ UNCHANGED <<ledgerVars, fnVars, syncVars>>
ArriveSumAgain == \E s \in Slots :
             SumArrivedAgain(s) /\ UNCHANGED <<ledgerVars, fnVars, syncVars>>

Init == RecInit /\ LedgerIdle /\ FnIdle /\ SyncIdle

\* One PURCHASE movement is stored; two arrive requests in flight,
\* interleaved at their awaited queries.
ArriveRaceInit == /\ \E c \in 1..MaxCount :
                        records = <<[itemId |-> 1, type |-> "PURCHASE", count |-> c,
                                     price |-> Some(1), purchaseId |-> None]>>
                  /\ nextId = 2
                  /\ res = NoResponse
                  /\ reqs = [s \in Slots |-> IdleReq]
                  /\ LedgerIdle /\ FnIdle /\ SyncIdle
ArriveRaceNext == \/ ArriveBegin \/ ArriveSum \/ ArriveCreate
                  \/ ArriveReadBack \/ ArriveSumAgain \/ End
ArriveRaceSpec == ArriveRaceInit /\ [][ArriveRaceNext]_vars

\* Two create requests in flight, interleaved at their awaited queries.
RaceNext == Begin \/ Check \/ Write \/ ReadBack \/ End
RaceSpec == Init /\ [][RaceNext]_vars
Next == Create \/ Update \/ Delete \/ ArrivePurchase \/ Respond
Spec == Init /\ [][Next]_vars

\* Enqueue calls and two runner invocations, interleaved at one instant.
SyncSpec == Init /\ [][SyncNext]_vars

\* Sync-inventory calls, two runner invocations and listing removal,
\* interleaved at one instant.
BatchSpec == Init /\ [][BatchNext]_vars

HistSpec == Init /\ [][HistNext]_vars

\* The runner is invoked again and again, each invocation runs to its end,
\* and time goes on.
DrainSpec == /\ Init
             /\ [][DrainNext]_vars
             /\ WF_vars(StartOne) /\ WF_vars(Claim) /\ WF_vars(DispatchNoted)
             /\ WF_vars(WriteSuccess) /\ WF_vars(FailureNoted) /\ WF_vars(Elapse)

CrashSpec == Init /\ [][CrashNext]_vars

\* Enqueue calls and one runner invoked again and again while time passes.
RetrySpec == Init /\ [][RetryNext]_vars

\* Purchases are created and arrived on; no movement is edited or deleted.
ArriveNext == Create \/ ArrivePurchase \/ Respond
ArriveSpec == Init /\ [][ArriveNext]_vars

-----------------------------------------------------------------------------
(* calcStockAndPending on its own: every list of at most MaxLen movements  *)
(* with counts 0..MaxCount, recomputed after each reordering of the list.  *)

LedgerRows == [type : RecordTypes, count : 0..MaxCount]
LedgerLists == UNION {[1..n -> LedgerRows] : n \in 0..MaxLen}

LedgerInit == /\ RecInit
              /\ SyncIdle
              /\ FnIdle
              /\ ledgerIn \in LedgerLists
              /\ ledgerOut = None

Calc == /\ ledgerOut = None
        /\ ledgerOut' = Some(calcStockAndPending(ledgerIn))
        /\ UNCHANGED <<ledgerIn, recVars, fnVars, syncVars>>

\* The same movements in another order (two neighbours swapped), recomputed.
Reorder == \E i \in 1..(Len(ledgerIn) - 1) :
              /\ ledgerOut # None
              /\ ledgerIn' = [ledgerIn EXCEPT ![i] = ledgerIn[i + 1],
                                              ![i + 1] = ledgerIn[i]]
              /\ ledgerOut' = Some(calcStockAndPending(ledgerIn'))
              /\ UNCHANGED <<recVars, fnVars, syncVars>>

LedgerNext == Calc \/ Reorder
LedgerSpec == LedgerInit /\ [][LedgerNext]_vars

-----------------------------------------------------------------------------
(* Visibility targets   (services/inventorySync.js, computeTargetQuantities) *)

MaxStock == 8        \* central stock ranges over -1..MaxStock
MaxBuffer == 2       \* policy.buffer ranges over -1..MaxBuffer
MaxMinVisible == 2   \* policy.minVisible ranges over -1..MaxMinVisible

ListingProviders == {"NAVER", "COUPANG", "ELEVENST"}

DEFAULT_POLICY == [mode |-> "NORMAL", buffer |-> 1, minVisible |-> 1,
                   exclusiveProvider |-> None]

clampNonNegative(value) == IF value < 0 THEN 0 ELSE value

computeVisibleNormalNoFloor(centralStock, buffer, minVisible) ==
    clampNonNegative(Max(minVisible, centralStock - buffer))

computeVisibleNormal(centralStock, buffer, minVisible) ==
    IF centralStock <= 0 THEN 0
    ELSE clampNonNegative(Max(minVisible, centralStock - buffer))

computeVisibleExclusive(centralStock) ==
    IF centralStock <= 0 THEN 0 ELSE centralStock

\* channelListing.findMany({where: {isActive: true}, orderBy: id asc}) on
\* rows kept in id order.
RECURSIVE ActiveListings(_)
ActiveListings(rows) ==
    IF rows = <<>> THEN <<>>
    ELSE (IF Head(rows).isActive THEN <<Head(rows)>> ELSE <<>>)
            \o ActiveListings(Tail(rows))

targetQtyIgnoringExclusive(listing, policy, centralStock) ==
    computeVisibleNormal(centralStock, policy.buffer, policy.minVisible)

\* The body of listings.map(...).
targetQtyOf(listing, policy, centralStock) ==
    IF policy.mode = "EXCLUSIVE" /\ policy.exclusiveProvider # None
    THEN IF listing.provider = Val(policy.exclusiveProvider)
         THEN computeVisibleExclusive(centralStock)
         ELSE 0
    ELSE computeVisibleNormal(centralStock, policy.buffer, policy.minVisible)

computeTargetQuantities(rows, policyRaw, centralStock) ==
    LET active == ActiveListings(rows)
        policy == IF policyRaw = None THEN DEFAULT_POLICY ELSE Val(policyRaw)
    IN  [i \in DOMAIN active |->
            [provider |-> active[i].provider, listingId |-> active[i].id,
             targetQty |-> targetQtyOf(active[i], policy, centralStock)]]

\* ChannelListing rows of one (user, item) in id order: at most one per
\* provider, each active or not.
ListingRows ==
    LET orders == UNION {{f \in [1..n -> ListingProviders] :
                             \A i, j \in 1..n : i # j => f[i] # f[j]} : n \in 0..3}
    IN  UNION {{[i \in DOMAIN f |-> [id |-> i, provider |-> f[i], isActive |-> a[i]]] :
                   a \in [DOMAIN f -> BOOLEAN]} : f \in orders}

\* The ItemInventoryPolicy row of the item, or none.
Policies ==
    {None} \cup
    {Some(pol) : pol \in [mode : {"NORMAL", "EXCLUSIVE"},
                          buffer : (-1)..MaxBuffer,
                          minVisible : (-1)..MaxMinVisible,
                          exclusiveProvider : {None} \cup {Some(pr) : pr \in ListingProviders}]}

TargetInit == /\ RecInit
              /\ LedgerIdle
              /\ SyncIdle
              /\ targetIn \in {Some([rows |-> rows, policy |-> pol, stock |-> st]) :
                                  rows \in ListingRows, pol \in Policies,
                                  st \in (-1)..MaxStock}
              /\ targetOut = None
              /\ normIn = None
              /\ normOut = None

ComputeTargets ==
    /\ targetOut = None
    /\ targetOut' = Some(computeTargetQuantities(Val(targetIn).rows, Val(targetIn).policy,
                                                 Val(targetIn).stock))
    /\ UNCHANGED <<targetIn, normIn, normOut, recVars, ledgerVars, syncVars>>

TargetNext == ComputeTargets
TargetSpec == TargetInit /\ [][TargetNext]_vars

-----------------------------------------------------------------------------
(* POST /api/items/:itemId/sync-inventory, next to the movement requests *)

ProviderOf(l) == CHOOSE p \in Providers : ListingOf(p) = l

\* The ChannelListing rows of the item, in id order; each is active.
RECURSIVE StoredListings(_)
StoredListings(ids) ==
    IF ids = {} THEN <<>>
    ELSE LET l == CHOOSE x \in ids : \A y \in ids : x <= y
         IN  <<[id |-> l, provider |-> ProviderOf(l), isActive |-> TRUE]>>
                \o StoredListings(ids \ {l})

\* No ItemInventoryPolicy row is stored: the route falls back to DEFAULT_POLICY.
SyncInventory(itemId) ==
    IF itemId <= 0
    THEN /\ res' = Response("sync", 400, "invalid itemId")
         /\ UNCHANGED <<records, nextId, reqs, syncVars>>
    ELSE IF itemId \notin Items
    THEN /\ res' = Response("sync", 404, "item not found")
         /\ UNCHANGED <<records, nextId, reqs, syncVars>>
    ELSE LET targets == computeTargetQuantities(StoredListings(listings), None,
                                                calcStock(records, itemId))
         IN  /\ enqueueInventorySync(targets)
             /\ enqueued' = noteEnqueue(targets)
             /\ res' = [Response("sync", 200, "ok") EXCEPT
                           !.stock = Some(calcStock(records, itemId))]
             /\ UNCHANGED <<records, nextId, reqs, hist>>

Sync == \E itemId \in ReqItemIds :
            /\ res = NoResponse
            /\ SyncInventory(itemId)
            /\ UNCHANGED <<ledgerVars, fnVars>>

\* Movement requests and sync-inventory requests, served one at a time.
FlowNext == Create \/ Update \/ Delete \/ ArrivePurchase \/ Sync \/ Respond
FlowSpec == Init /\ [][FlowNext]_vars

-----------------------------------------------------------------------------
(* normalizeRecordInput on its own: every body over the raw values below *)

NormTypes == RawTypes \cup {RNull, Str(" In ")}
NormCounts == {RUndef, RNull, REmpty, RNaN} \cup {Num(h) : h \in (-4)..(2 * MaxCount + 1)}
NormPrices == {RUndef, RNull, REmpty, RNaN} \cup {Num(h) : h \in (-2)..5}
NormBodies == [type : NormTypes, count : NormCounts, price : NormPrices]

NormInit == /\ RecInit
            /\ LedgerIdle
            /\ SyncIdle
            /\ targetIn = None
            /\ targetOut = None
            /\ normIn \in {Some(b) : b \in NormBodies}
            /\ normOut = None

Normalize ==
    /\ normOut = None
    /\ normOut' = Some(normalizeRecordInput(Val(normIn)))
    /\ UNCHANGED <<normIn, targetIn, targetOut, recVars, ledgerVars, syncVars>>

NormNext == Normalize
NormSpec == NormInit /\ [][NormNext]_vars

-----------------------------------------------------------------------------
(* Quantities the claims speak of, defined without the code's operators *)

\* Sum of f[x] over a finite set.
RECURSIVE SumOver(_, _)
SumOver(f, S) ==
    IF S = {} THEN 0
    ELSE LET x == CHOOSE y \in S : TRUE IN f[x] + SumOver(f, S \ {x})

\* Sum of the counts of the movements of one type in a list.
ListSum(rs, type) ==
    SumOver([i \in 1..Len(rs) |-> IF rs[i].type = type THEN rs[i].count ELSE 0],
            1..Len(rs))

\* On-hand stock of the stored movements, optionally leaving one id out.
OnHand(recs, leftOut) ==
    SumOver([i \in DOMAIN recs |->
                IF i \in leftOut THEN 0
                ELSE IF recs[i].type = "IN" THEN recs[i].count
                ELSE IF recs[i].type = "OUT" THEN -recs[i].count
                ELSE 0],
            DOMAIN recs)

\* Sum of the counts of the IN movements linked to purchase p.
Linked(recs, p) ==
    SumOver([i \in DOMAIN recs |->
                IF recs[i].type = "IN" /\ recs[i].purchaseId = Some(p)
                THEN recs[i].count ELSE 0],
            DOMAIN recs)

IsPurchase(recs, p) == p \in DOMAIN recs /\ recs[p].type = "PURCHASE"

\* x clamped into [lo, hi]
Clamp(x, lo, hi) == IF x < lo THEN lo ELSE IF x > hi THEN hi ELSE x

\* floor of h halves
FloorHalf(h) == CHOOSE k \in (-MaxCount - 2)..(MaxCount + 2) : 2 * k <= h /\ h < 2 * k + 2

Omitted(raw) == raw.k \in {"undefined", "null", "empty"}

-----------------------------------------------------------------------------
(* C1 *)

\* C1: for every list of movements with non-negative counts,
\* calcStockAndPending returns stock = sum(IN) - sum(OUT) and
\* pendingIn = max(0, sum(PURCHASE) - sum(IN)); PURCHASE rows do not enter
\* stock, and recomputing after a reordering of the list returns the same result.
C1_LedgerCorrect ==
    /\ [](ledgerOut # None =>
            /\ Val(ledgerOut).stock = ListSum(ledgerIn, "IN") - ListSum(ledgerIn, "OUT")
            /\ Val(ledgerOut).pendingIn =
                 Max(0, ListSum(ledgerIn, "PURCHASE") - ListSum(ledgerIn, "IN")))
    /\ [][(ledgerOut # None /\ ledgerOut' # None) => ledgerOut' = ledgerOut]_vars

\* A reordered list with more received than purchased and some sold.
C1_Witness ==
    /\ ledgerOut # None
    /\ Len(ledgerIn) = MaxLen
    /\ ledgerIn[1].type = "OUT" /\ ledgerIn[1].count > 0
    /\ ledgerIn[2].type = "PURCHASE" /\ ledgerIn[2].count > 0
    /\ ledgerIn[3].type = "IN" /\ ledgerIn[3].count > ledgerIn[2].count
    /\ Val(ledgerOut).pendingIn = 0
    /\ Val(ledgerOut).stock = ledgerIn[3].count - ledgerIn[1].count

-----------------------------------------------------------------------------
(* C2 *)

\* C2: a create request whose normalized type is OUT and whose count exceeds
\* the on-hand stock of the stored movements is answered 400 insufficient
\* stock carrying that stock, and the stored movements stay as they were.
C2_OutOverStockRejected ==
    [][\A n \in NormalizedBodies :
          (/\ n.ok
           /\ n.type = "OUT"
           /\ n.count > 2 * OnHand(records, {})
           /\ CreateRecord(1, n))
          => /\ records' = records
             /\ nextId' = nextId
             /\ res'.op = "create"
             /\ res'.status = 400
             /\ res'.kind = "insufficient stock"
             /\ res'.stock = Some(OnHand(records, {}))]_vars

\* An OUT was refused while one unit was on hand.
C2_Witness ==
    /\ res.op = "create"
    /\ res.kind = "insufficient stock"
    /\ res.stock = Some(1)
    /\ OnHand(records, {}) = 1

-----------------------------------------------------------------------------
(* C3 *)

\* C3: an update whose normalized type is OUT is accepted only if the new
\* count does not exceed the on-hand stock of the item's movements without
\* the movement being edited, whatever that movement's previous type; else it
\* is answered insufficient stock and nothing is written.
C3_UpdateOutWithinStockExcludingEdited ==
    [][\A id \in DOMAIN records : \A n \in NormalizedMerged(records[id]) :
          (/\ n.ok
           /\ n.type = "OUT"
           /\ UpdateRecord(1, id, n))
          => IF n.count <= 2 * OnHand(records, {id})
             THEN res'.kind # "insufficient stock"
             ELSE /\ res'.kind = "insufficient stock"
                  /\ records' = records]_vars

-----------------------------------------------------------------------------
(* C4 *)

\* C4: while purchases are only arrived on (requests served one after
\* another, with any requested count), the counts of the IN movements linked
\* to a purchase never sum to more than the purchase's count.
C4_ArrivalsNeverExceedPurchase ==
    \A p \in DOMAIN records :
        records[p].type = "PURCHASE" => Linked(records, p) <= records[p].count

\* A purchase of two or more, fully received in two arrivals.
C4_Witness ==
    \E p \in DOMAIN records :
        /\ records[p].type = "PURCHASE"
        /\ records[p].count >= 2
        /\ Linked(records, p) = records[p].count
        /\ Cardinality({i \in DOMAIN records : records[i].purchaseId = Some(p)}) = 2

-----------------------------------------------------------------------------
(* C5 *)

\* C5: arrive on a purchase whose linked IN counts already sum to at least
\* its count answers success with remaining 0, creates no movement and
\* leaves stock and pendingIn as they were, for every requested count; the
\* state it leaves is the state it found, so repeating it is again a no-op.
C5_ArriveOnFulfilledIsNoOp ==
    [][\A p \in DOMAIN records : \A c \in ArriveCounts :
          (/\ records[p].type = "PURCHASE"
           /\ Linked(records, p) >= records[p].count
           /\ Arrive(p, c))
          => /\ records' = records
             /\ nextId' = nextId
             /\ res'.op = "arrive"
             /\ res'.status = 200
             /\ res'.remaining = Some(0)
             /\ calcStockAndPending(ItemDetail(records', records[p].itemId))
                  = calcStockAndPending(ItemDetail(records, records[p].itemId))]_vars

\* Arrive was answered "already fully arrived" for a purchase received in full.
C5_Witness ==
    /\ res.op = "arrive"
    /\ res.kind = "already fully arrived"
    /\ \E p \in DOMAIN records :
          /\ records[p].type = "PURCHASE"
          /\ Linked(records, p) = records[p].count

-----------------------------------------------------------------------------
(* C6 *)

\* C6: when something is still owed, arrive creates exactly one movement:
\* IN, price null, linked to the purchase, with count = remaining when the
\* requested count is omitted (absent, null or "") and otherwise the floor of
\* the requested count clamped into [1, remaining]; the remaining it returns
\* is the previous remaining minus that count.
C6_ArriveCountResolution ==
    [][\A p \in DOMAIN records : \A c \in ArriveCounts :
          LET remaining == records[p].count - Linked(records, p)
              count == IF Omitted(c) THEN remaining
                       ELSE Clamp(FloorHalf(c.h), 1, remaining)
          IN  (/\ records[p].type = "PURCHASE"
               /\ remaining > 0
               /\ Arrive(p, c))
              => /\ DOMAIN records' = DOMAIN records \cup {nextId}
                 /\ nextId \notin DOMAIN records
                 /\ \A i \in DOMAIN records : records'[i] = records[i]
                 /\ records'[nextId] = [itemId |-> records[p].itemId, type |-> "IN",
                                        count |-> count, price |-> None,
                                        purchaseId |-> Some(p)]
                 /\ res'.status = 201
                 /\ res'.remaining = Some(remaining - count)]_vars

\* A partial arrival that left one unit owed, then the rest in bulk.
C6_Witness ==
    /\ res.op = "arrive"
    /\ res.status = 201
    /\ res.remaining = Some(0)
    /\ \E p \in DOMAIN records :
          /\ records[p].type = "PURCHASE"
          /\ Cardinality({i \in DOMAIN records : records[i].purchaseId = Some(p)}) = 2
          /\ Linked(records, p) = records[p].count

-----------------------------------------------------------------------------
(* Sync job queue: what is checked *)

Row(p) == jobs[CHOOSE j \in JobOf(jobs, p) : TRUE]
Holding(r) == runners[r].pc \in {"dispatch", "write"}
Current(r) == Head(runners[r].jobs)
Delay(n) == IF n <= 1 THEN 1 ELSE IF n = 2 THEN 5 ELSE IF n = 3 THEN 15
            ELSE IF n = 4 THEN 30 ELSE 60

\* C7: every (user, provider, item) that was ever enqueued has exactly one job
\* row, and no other has any; while no runner has claimed the row since the
\* last enqueue, the row holds that enqueue's targetQty, is PENDING with
\* attempts 0, no lastError and no lock, and nextRunAt is the time of that
\* enqueue.
C7_EnqueueSupersedes ==
    \A p \in Providers :
        /\ Cardinality(JobOf(jobs, p)) = IF enqueued[p] = None THEN 0 ELSE 1
        /\ (enqueued[p] # None /\ ~Val(enqueued[p]).claimed) =>
              /\ Row(p).targetQty = Val(enqueued[p]).targetQty
              /\ Row(p).status = "PENDING"
              /\ Row(p).attempts = 0
              /\ Row(p).lastError = None
              /\ Row(p).lockedAt = None
              /\ Row(p).nextRunAt = Val(enqueued[p]).at

\* C8: when two runners selected the same PENDING, unlocked job and both are
\* at the conditional claim, the claim of one makes the job RUNNING with
\* lockedAt set and counts it as processed, and leaves the row in a state the
\* other's claim does not match; a claim that matches no row changes no job,
\* counts nothing as processed, never reaches the adapter for that job, and
\* goes on with the runner's next job.
C8_NoDoubleClaim ==
    [][\A r \in Runners :
          (runners[r].pc = "claim" /\ RunnerClaim(r)) =>
             LET id == Current(r).id
                 free == jobs[id].status = "PENDING" /\ jobs[id].lockedAt = None
             IN  /\ free =>
                       /\ jobs'[id].status = "RUNNING"
                       /\ jobs'[id].lockedAt = Some(now)
                       /\ runners'[r].processed = runners[r].processed + 1
                       /\ Holding(r)'
                       /\ Current(r)' = Current(r)
                       /\ \A o \in Runners \ {r} : runners'[o] = runners[o]
                 /\ ~free =>
                       /\ jobs' = jobs
                       /\ runners'[r].processed = runners[r].processed
                       /\ runners'[r].succeeded = runners[r].succeeded
                       /\ runners'[r].failed = runners[r].failed
                       /\ runners'[r].pc \in {"claim", "idle"}
                       /\ runners'[r].jobs = Tail(runners[r].jobs)]_vars

\* One runner is past its claim of a job, the row is RUNNING and locked, and
\* the other runner, which selected the same job, stands at its claim.
C8_Witness ==
    \E r, o \in Runners :
        /\ r # o
        /\ Holding(r)
        /\ runners[r].processed = 1
        /\ runners[o].pc = "claim"
        /\ runners[o].processed = 0
        /\ Current(o).id = Current(r).id
        /\ Len(runners[o].jobs) = 2
        /\ jobs[Current(r).id].status = "RUNNING"
        /\ jobs[Current(r).id].lockedAt # None

\* C9: at no time are two runners both between a successful claim of a job
\* and the write of its outcome for the same job row.
C9_NeverBothProcessing ==
    \A r, o \in Runners :
        (r # o /\ Holding(r) /\ Holding(o)) => Current(r).id # Current(o).id

\* C10: the failure write of a claimed job sets attempts to the row's previous
\* value + 1, records the error message, clears the lock, sets nextRunAt to
\* now + the delay of the new attempts, and makes the status FAILED iff the
\* new attempts >= 5 and PENDING otherwise.
C10_FailureTransition ==
    [][\A r \in Runners :
          (runners[r].pc = "write" /\ RunnerWriteFailure(r)) =>
             LET id == Current(r).id
                 n == jobs[id].attempts + 1
             IN  /\ jobs'[id].attempts = n
                 /\ jobs'[id].lastError = runners[r].result
                 /\ jobs'[id].lockedAt = None
                 /\ jobs'[id].nextRunAt = now + Delay(n)
                 /\ jobs'[id].status = IF n >= 5 THEN "FAILED" ELSE "PENDING"]_vars

\* C11: the success write of a claimed job whose adapter call returned ok
\* makes the job SUCCEEDED with lockedAt null and lastError null, leaves its
\* attempts and targetQty as they were, and adds one to the batch's
\* succeeded count (and nothing to its processed and failed counts).
C11_SuccessTransition ==
    [][\A r \in Runners :
          (runners[r].pc = "write" /\ runners[r].result = Some("ok")
             /\ RunnerWriteSuccess(r)) =>
             LET id == Current(r).id
             IN  /\ jobs'[id].status = "SUCCEEDED"
                 /\ jobs'[id].lockedAt = None
                 /\ jobs'[id].lastError = None
                 /\ jobs'[id].attempts = jobs[id].attempts
                 /\ jobs'[id].targetQty = jobs[id].targetQty
                 /\ runners'[r].succeeded = runners[r].succeeded + 1
                 /\ runners'[r].processed = runners[r].processed
                 /\ runners'[r].failed = runners[r].failed
                 /\ \A j \in DOMAIN jobs \ {id} : jobs'[j] = jobs[j]]_vars

\* A job that failed once, was retried and succeeded: its error is cleared
\* and its attempts are still 1.
C11_Witness ==
    \E j \in DOMAIN jobs, r \in Runners :
        /\ jobs[j].status = "SUCCEEDED"
        /\ jobs[j].attempts = 1
        /\ jobs[j].lastError = None
        /\ jobs[j].nextRunAt <= now
        /\ runners[r].pc = "idle"
        /\ runners[r].succeeded = 1

-----------------------------------------------------------------------------
(* Visibility targets: what is checked *)

TIn == Val(targetIn)
TOut == Val(targetOut)
ActiveIds(rows) == {rows[i].id : i \in {k \in DOMAIN rows : rows[k].isActive}}
OneTuplePerActive(rows, out) ==
    /\ {out[i].listingId : i \in DOMAIN out} = ActiveIds(rows)
    /\ Len(out) = Cardinality(ActiveIds(rows))
    /\ \A i \in DOMAIN out : \E k \in DOMAIN rows :
          /\ rows[k].id = out[i].listingId
          /\ rows[k].provider = out[i].provider
          /\ rows[k].isActive

\* C12: with a stored policy of mode EXCLUSIVE and a designated exclusive
\* provider, for every set of listings, every active listing has a target:
\* the listing of the designated provider gets centralStock when
\* centralStock > 0 and 0 otherwise, and the listing of every other provider
\* gets 0.
C12_ExclusiveVisibility ==
    (/\ targetOut # None
     /\ TIn.policy # None
     /\ Val(TIn.policy).mode = "EXCLUSIVE"
     /\ Val(TIn.policy).exclusiveProvider # None)
    => /\ OneTuplePerActive(TIn.rows, TOut)
       /\ \A i \in DOMAIN TOut :
             TOut[i].targetQty =
                IF TOut[i].provider = Val(Val(TIn.policy).exclusiveProvider)
                THEN (IF TIn.stock > 0 THEN TIn.stock ELSE 0)
                ELSE 0

\* Stock 8, active listings NAVER and COUPANG, exclusive NAVER: NAVER 8, COUPANG 0.
C12_Witness ==
    /\ targetOut # None
    /\ TIn.stock = 8
    /\ TIn.policy # None
    /\ Val(TIn.policy).mode = "EXCLUSIVE"
    /\ Val(TIn.policy).exclusiveProvider = Some("NAVER")
    /\ TOut = <<[provider |-> "NAVER", listingId |-> 1, targetQty |-> 8],
                [provider |-> "COUPANG", listingId |-> 2, targetQty |-> 0]>>

\* C13: with mode NORMAL, or mode EXCLUSIVE without a designated provider,
\* or no stored policy (buffer 1, minVisible 1), every active listing gets
\* 0 when centralStock <= 0 and max(0, max(minVisible, centralStock - buffer))
\* otherwise; the output has exactly one tuple per active listing and none
\* for an inactive one.
C13_NormalVisibility ==
    (/\ targetOut # None
     /\ \/ TIn.policy = None
        \/ Val(TIn.policy).mode = "NORMAL"
        \/ Val(TIn.policy).exclusiveProvider = None)
    => LET buffer == IF TIn.policy = None THEN 1 ELSE Val(TIn.policy).buffer
           minVisible == IF TIn.policy = None THEN 1 ELSE Val(TIn.policy).minVisible
           expected == IF TIn.stock <= 0 THEN 0
                       ELSE Max(0, Max(minVisible, TIn.stock - buffer))
       IN  /\ OneTuplePerActive(TIn.rows, TOut)
           /\ \A i \in DOMAIN TOut : TOut[i].targetQty = expected

\* Buffer 2, minVisible 1, stock 5 gives 3 to the active listing; the
\* inactive listing has no tuple.
C13_Witness ==
    /\ targetOut # None
    /\ TIn.stock = 5
    /\ TIn.policy # None
    /\ Val(TIn.policy).mode = "NORMAL"
    /\ Val(TIn.policy).buffer = 2
    /\ Val(TIn.policy).minVisible = 1
    /\ Len(TIn.rows) = 2
    /\ ~TIn.rows[1].isActive
    /\ TIn.rows[2].isActive
    /\ TOut = <<[provider |-> TIn.rows[2].provider, listingId |-> 2, targetQty |-> 3]>>

-----------------------------------------------------------------------------
(* Movements and the sync queue: what is checked *)

\* C14: a create, update, delete or arrive request that persists a movement
\* of an item with active listings leaves, for every active listing, a sync
\* job whose targetQty is the visibility target computed from the stock
\* after the movement; no separate request is needed for it.
C14_MovementEnqueuesSync ==
    [][(records' # records) =>
          LET targets == computeTargetQuantities(StoredListings(listings), None,
                                                 calcStock(records', 1))
          IN  \A i \in DOMAIN targets :
                 /\ JobOf(jobs', targets[i].provider) # {}
                 /\ \A j \in JobOf(jobs', targets[i].provider) :
                       /\ jobs'[j].targetQty = targets[i].targetQty
                       /\ jobs'[j].status = "PENDING"]_vars

-----------------------------------------------------------------------------
(* Movement validation: what is checked *)

NIn == Val(normIn)
NOut == Val(normOut)
\* The count of the body as a number (in halves): <<>> when it is not finite.
GivenCount(body) ==
    IF body.count.k \in {"null", "undefined"} THEN Some(2) ELSE ToNumber(body.count)

\* C15: normalizeRecordInput returns a count that is a positive integer, and
\* a body of a valid type whose count is not finite or is <= 0 makes it fail
\* with an invalid-quantity error: no normalized movement is produced.
C15_QuantityRule ==
    (normOut # None /\ normRecordType(NIn.type) # None) =>
        /\ NOut.ok => (IsInt(NOut.count) /\ NOut.count >= 2)
        /\ (GivenCount(NIn) = None \/ Val(GivenCount(NIn)) <= 0) =>
              (~NOut.ok /\ NOut.error = "invalid quantity")

\* A price that is missing, null, empty, not finite, zero or negative.
PriceBad(raw) == raw.k \in {"undefined", "null", "empty", "nan"} \/ raw.h <= 0
PriceRequired(r) == /\ r.status = 400
                    /\ r.kind = "PURCHASE requires price (>0)"
PurchaseBodies == [type : {Str("Purchase")}, count : RawCounts,
                   price : RawPrices \cup {REmpty, RNaN, Num(0)}]
PurchaseEdits == [type : {RUndef, Str("Purchase")}, count : RawCounts,
                  price : RawPrices \cup {REmpty, RNaN, Num(0)}]

\* C16: a create or update whose (merged) type is PURCHASE and whose price is
\* missing, null, empty, not finite, zero or negative is refused with the
\* price-required error and writes nothing; on update a missing price is the
\* stored price of the movement being edited.  When the request is accepted
\* the stored price is the integer truncation of the supplied price, and no
\* stored PURCHASE movement ever has a null price.
C16_PurchaseRequiresPrice ==
    /\ [](\A i \in DOMAIN records : records[i].type = "PURCHASE" => records[i].price # None)
    /\ [][res'.op = "create" =>
          \A b \in PurchaseBodies :
             CreateRecord(1, normalizeRecordInput(b)) =>
                IF PriceBad(b.price)
                THEN PriceRequired(res') /\ records' = records
                ELSE res'.status = 201 =>
                        records'[nextId].price = Some(b.price.h \div 2)]_vars
    /\ [][res'.op = "update" =>
          \A id \in DOMAIN records : \A b \in PurchaseEdits :
             LET m == mergedBody(records[id], b)
             IN  (/\ normRecordType(m.type) = Some("PURCHASE")
                  /\ UpdateRecord(1, id, normalizeRecordInput(m))) =>
                    IF PriceBad(m.price)
                    THEN PriceRequired(res') /\ records' = records
                    ELSE res'.status = 200 =>
                            records'[id].price = Some(m.price.h \div 2)]_vars

\* An update that turns a movement into a PURCHASE was refused for its price
\* while every stored movement had a null price.
C16_Witness ==
    /\ res.op = "update"
    /\ PriceRequired(res)
    /\ records # <<>>
    /\ \A i \in DOMAIN records : records[i].type # "PURCHASE" /\ records[i].price = None

\* C17: every stored movement of type IN has a null price, in every state
\* reached through create, update (also of a priced OUT or PURCHASE movement
\* into IN), delete and arrive; a price supplied with an IN movement is
\* dropped: the request is not refused for it and the price is not stored.
C17_InNeverCarriesPrice ==
    /\ [](\A i \in DOMAIN records : records[i].type = "IN" => records[i].price = None)
    /\ [][res'.op = "create" =>
          \A b \in [type : {Str("IN")}, count : {RUndef}, price : {Num(-2), Num(3)}] :
             CreateRecord(1, normalizeRecordInput(b)) =>
                /\ res'.status = 201
                /\ records'[nextId].type = "IN"
                /\ records'[nextId].price = None]_vars
    /\ [][res'.op = "update" =>
          \A id \in DOMAIN records :
          \A b \in [type : {Str("IN")}, count : {RUndef}, price : {RUndef, Num(-2), Num(3)}] :
             UpdateRecord(1, id, normalizeRecordInput(mergedBody(records[id], b))) =>
                /\ res'.status = 200
                /\ records'[id].type = "IN"
                /\ records'[id].price = None]_vars

\* A priced movement was stored and an update has since been accepted that
\* left only IN movements, none with a price.
C17_Witness ==
    /\ res.op = "update"
    /\ res.status = 200
    /\ res.id # None
    /\ Val(res.id) \in DOMAIN records
    /\ records[Val(res.id)].type = "IN"
    /\ records[Val(res.id)].purchaseId = None
    /\ res.pendingIn = Some(0)
    /\ \A i \in DOMAIN records : records[i].type = "IN" /\ records[i].price = None
    /\ \E i \in DOMAIN records : records[i].purchaseId # None

Refusals == {"Invalid record type (IN/OUT/PURCHASE)", "PURCHASE requires price (>0)",
             "Invalid price", "insufficient stock", "purchase not found",
             "record is not PURCHASE"}

\* C18: a create or update request refused by validation (invalid type,
\* price required, invalid price) or by the stock check, and an arrive request
\* refused as not found or not a purchase, leaves the set of stored movements
\* and every field of every movement as it was.
C18_RefusedRequestsWriteNothing ==
    [][(res' # res /\ res'.status >= 400 /\ res'.kind \in Refusals) =>
          /\ res'.op \in {"create", "update", "arrive"}
          /\ records' = records
          /\ nextId' = nextId]_vars

\* An update to OUT was refused by the stock check with movements stored.
C18_Witness ==
    /\ res.op = "update"
    /\ res.status = 400
    /\ res.kind = "insufficient stock"
    /\ Cardinality(DOMAIN records) >= 2

-----------------------------------------------------------------------------
(* Missing listing: what is checked *)

\* C19: a claim that succeeds on a job whose row has no listing (listingId
\* null) takes the runner straight to the failure write of "listing missing",
\* counted once as processed, without a call of the adapter; that failure
\* write sets attempts to the row's previous value + 1 with the delay and the
\* status of the new attempts, clears the lock, adds one to the batch's failed
\* count and goes on with the runner's next job.
C19_MissingListingFails ==
    [][\A r \in Runners :
          /\ (runners[r].pc = "claim" /\ RunnerClaim(r)
                /\ Claimable(jobs[Current(r).id])
                /\ jobs[Current(r).id].listingId = None) =>
                /\ runners'[r].pc = "write"
                /\ runners'[r].result = Some("listing missing")
                /\ runners'[r].processed = runners[r].processed + 1
          /\ (runners[r].pc = "write" /\ runners[r].result = Some("listing missing")
                /\ RunnerWriteFailure(r)) =>
                LET id == Current(r).id
                    n == jobs[id].attempts + 1
                IN  /\ jobs'[id].attempts = n
                    /\ jobs'[id].lastError = Some("listing missing")
                    /\ jobs'[id].lockedAt = None
                    /\ jobs'[id].nextRunAt = now + Delay(n)
                    /\ jobs'[id].status = IF n >= 5 THEN "FAILED" ELSE "PENDING"
                    /\ runners'[r].failed = runners[r].failed + 1
                    /\ runners'[r].processed = runners[r].processed
                    /\ runners'[r].jobs = Tail(runners[r].jobs)
                    /\ runners'[r].pc = IF Tail(runners[r].jobs) = <<>>
                                        THEN "idle" ELSE "claim"]_vars

-----------------------------------------------------------------------------
(* Concurrent creates: what is checked *)

Asked(s) == Val(reqs[s].n)

\* C20: in the create flow the stock is judged once, at the check: an OUT
\* request is refused there iff its count exceeds the on-hand stock of that
\* moment, and otherwise goes on holding the stock it observed; the later
\* write stores the movement as asked whatever the stock has become, and the
\* request is then answered 201. (With two requests in flight both can pass
\* the check on the same stock and both be stored, leaving the stock
\* negative: the witness.)
C20_CheckThenAct ==
    [][\A s \in Slots :
          /\ (reqs[s].pc = "check" /\ CheckStock(s)) =>
                LET st == OnHand(records, {})
                IN  IF Asked(s).count > 2 * st
                    THEN /\ reqs'[s].pc = "done"
                         /\ reqs'[s].status = 400
                         /\ reqs'[s].stock = Some(st)
                    ELSE /\ reqs'[s].pc = "write"
                         /\ reqs'[s].stockNow = Some(st)
          /\ (reqs[s].pc = "write" /\ IsInt(Asked(s).count) /\ WriteRecord(s)) =>
                /\ DOMAIN records' = DOMAIN records \cup {nextId}
                /\ records'[nextId].type = Asked(s).type
                /\ 2 * records'[nextId].count = Asked(s).count
                /\ \A i \in DOMAIN records : records'[i] = records[i]
                /\ reqs'[s].pc = "detail"
          /\ (reqs[s].pc = "detail" /\ ReadDetail(s)) =>
                /\ reqs'[s].status = 201
                /\ reqs'[s].stock = Some(OnHand(records, {}))
                /\ records' = records]_vars

\* Two OUT requests were in flight together, each observed a stock that
\* covers its count, both were stored and answered 201, and the on-hand
\* stock is negative.
C20_Witness ==
    /\ \A s \in Slots :
          /\ reqs[s].pc = "done"
          /\ reqs[s].status = 201
          /\ Asked(s).type = "OUT"
          /\ reqs[s].stockNow # None
          /\ Asked(s).count <= 2 * Val(reqs[s].stockNow)
          /\ Val(reqs[s].id) \in DOMAIN records
    /\ reqs[1].id # reqs[2].id
    /\ reqs[1].stockNow = reqs[2].stockNow
    /\ OnHand(records, {}) < 0
    /\ \E s \in Slots : Val(reqs[s].stock) < 0

-----------------------------------------------------------------------------
(* Terminal and stuck jobs: what is checked *)

Terminal(row) == row.status \in {"FAILED", "SUCCEEDED"}

\* The row as an enqueue leaves it.
Fresh(row) ==
    /\ row.status = "PENDING"
    /\ row.attempts = 0
    /\ row.lastError = None
    /\ row.lockedAt = None
    /\ row.nextRunAt = now

\* C21: a job that is FAILED or SUCCEEDED is not the job a runner is
\* dispatching or about to write, is never put into a runner's selection, and
\* its row changes in no step other than an enqueue, which makes it PENDING
\* with attempts 0.
C21_TerminalUntouchedByRunner ==
    /\ [](\A r \in Runners : Holding(r) => ~Terminal(jobs[Current(r).id]))
    /\ [][\A j \in DOMAIN jobs :
             Terminal(jobs[j]) =>
                /\ jobs'[j] = jobs[j] \/ Fresh(jobs'[j])
                /\ \A r \in Runners :
                      (runners[r].pc = "idle" /\ runners'[r].pc = "claim") =>
                         \A i \in DOMAIN runners'[r].jobs : runners'[r].jobs[i].id # j]_vars

\* A row left RUNNING and locked that no runner is processing.
Stuck(j) ==
    /\ jobs[j].status = "RUNNING"
    /\ jobs[j].lockedAt # None
    /\ \A r \in Runners : ~(Holding(r) /\ Current(r).id = j)

\* C22: a job left RUNNING and locked by a runner that stopped after its
\* claim is never in the selection of a runner invocation, is never claimed,
\* and its row changes in no step other than an enqueue, which resets it to
\* PENDING with attempts 0 and no lock, however far the clock has advanced.
C22_StuckRunningNotReclaimed ==
    [][\A j \in DOMAIN jobs :
          Stuck(j) =>
             /\ jobs'[j] = jobs[j] \/ Fresh(jobs'[j])
             /\ \A r \in Runners :
                   /\ (runners[r].pc = "idle" /\ runners'[r].pc = "claim") =>
                         \A i \in DOMAIN runners'[r].jobs : runners'[r].jobs[i].id # j
                   /\ Holding(r)' => Current(r)'.id # j]_vars

\* A job is stuck RUNNING since its claim, the clock has gone on by more
\* than the longest delay before the last retry, and a later invocation of the
\* runner has selected the other job only.
C22_Witness ==
    \E j \in DOMAIN jobs :
        /\ Stuck(j)
        /\ now >= Val(jobs[j].lockedAt) + 30
        /\ runners[1].pc = "claim"
        /\ Len(runners[1].jobs) = 1
        /\ Current(1).id # j

-----------------------------------------------------------------------------
(* Queue drain: what is checked *)

Has(p) == JobOf(jobs, p) # {}

-----------------------------------------------------------------------------
(* Targets, locks, backoff and attempts under interleaving: what is checked *)

\* C24: whenever a job is SUCCEEDED, the quantity last delivered successfully
\* to the adapter for its (user, provider, item) is the targetQty the job row
\* holds.
C24_NewerTargetSupersedes ==
    \A p \in Providers :
        (Has(p) /\ Row(p).status = "SUCCEEDED") =>
            hist[p].delivered = Some(Row(p).targetQty)

\* C25: in every state, every job row has lockedAt set if and only if its
\* status is RUNNING.
C25_LockedIffRunning ==
    \A j \in DOMAIN jobs : (jobs[j].lockedAt # None) <=> (jobs[j].status = "RUNNING")

\* One row is RUNNING and locked, and another was reset by an enqueue to
\* PENDING without lock while a runner is still processing it.
C25_Witness ==
    \E j, k \in DOMAIN jobs, r \in Runners :
        /\ jobs[j].status = "RUNNING"
        /\ jobs[j].lockedAt # None
        /\ jobs[k].status = "PENDING"
        /\ jobs[k].lockedAt = None
        /\ Holding(r)
        /\ Current(r).id = k

\* C26: a claim that succeeds finds the row's nextRunAt at or before the
\* current time, so a job reaches the adapter only when its row is due.
C26_BackoffRespected ==
    [][\A r \in Runners :
          (runners[r].pc = "claim" /\ RunnerClaim(r)
             /\ Claimable(jobs[Current(r).id])) =>
             jobs[Current(r).id].nextRunAt <= now]_vars

\* C27: for every enqueued (user, provider, item), the attempts of its job
\* row is the number of failure writes of that job since its last enqueue,
\* attempts is within 0..5, and the job has been handed to the adapter at
\* most 5 times since that enqueue.
C27_AttemptsExact ==
    \A p \in Providers :
        Has(p) =>
            /\ Row(p).attempts = hist[p].failures
            /\ Row(p).attempts \in 0..5
            /\ hist[p].dispatches <= 5

-----------------------------------------------------------------------------
(* Stock and fulfillment links over whole histories: what is checked *)

\* C28: with the movement requests served one at a time from an empty
\* ledger, the on-hand stock of the item (sum of IN minus sum of OUT) is at
\* least 0 in every state.
C28_SequentialStockNonNegative == OnHand(records, {}) >= 0

\* C29: with arrive requests in flight together, for every stored PURCHASE
\* the counts of the IN movements linked to it sum to at most its count.
C29_ConcurrentArrivalsWithinPurchase ==
    \A p \in DOMAIN records :
        IsPurchase(records, p) => records[p].count - Linked(records, p) >= 0

\* C30: in every state, every movement with a purchaseId has type IN and its
\* purchaseId is the id of a stored movement of type PURCHASE of the same
\* item whose count is at least the sum of the counts of the IN movements
\* linked to it.
C30_LinksWellFormed ==
    \A i \in DOMAIN records :
        records[i].purchaseId # None =>
            LET p == Val(records[i].purchaseId)
            IN  /\ records[i].type = "IN"
                /\ IsPurchase(records, p)
                /\ records[p].itemId = records[i].itemId
                /\ records[p].count >= Linked(records, p)

============================================================================
